---------------------------- MODULE Spec2Model ----------------------------
(***************************************************************************)
(* A model of extract_qoe_metrics.py: the three line scanners              *)
(* (parse_timing_breakdown, parse_freeze_rate, parse_bitrate), the         *)
(* cumulative-counter reconstruction extract_freeze_durations, calc_stats, *)
(* analyze_log, and the three ways main() drives them: a single file, a    *)
(* directory of files, and the --freeze comparison.                        *)
(*                                                                         *)
(* Conventions.                                                            *)
(*  - A Python value that may be None is a sequence of length at most one: *)
(*    None is <<>> and a present value v is <<v>>.                         *)
(*  - A float is the exact rational [num, den] the expression denotes; a   *)
(*    float parsed from text is [num, den] with den a power of ten.        *)
(*  - A log line is a record of what the regular expressions can see of    *)
(*    it: which marker substring it carries, whether the marker stands in  *)
(*    square brackets, and the labelled fields that follow, in line order. *)
(***************************************************************************)
EXTENDS Integers, Sequences, FiniteSets, TLC

VARIABLES
    mode,             \* which branch of main() runs: "file", "dir", "freeze"
    files,            \* the file system: name -> [readable, lines]
    log_files,        \* main's / plot_freeze_analysis's list of file names
    remaining,        \* names the for loop has not started yet
    log_file,         \* the name being processed (None before the first)
    pc,               \* position in the program
    lineno,           \* 1-based index of the next line of the current scan
    timings,          \* parse_timing_breakdown's local: channel -> samples
    freeze_info,      \* parse_freeze_rate's local
    bytes_received,   \* parse_bitrate's local
    prev_count,       \* extract_freeze_durations' locals
    prev_dur,
    freeze_durations,
    results,          \* analyze_log's return value (None until it returns)
    all_results,      \* main's list in directory mode
    freeze_rates,     \* plot_freeze_analysis's list
    stdout,           \* what has been printed
    exc               \* the uncaught exception, None while none was raised

vars == <<mode, files, log_files, remaining, log_file, pc, lineno, timings,
          freeze_info, bytes_received, prev_count, prev_dur, freeze_durations,
          results, all_results, freeze_rates, stdout, exc>>

None == <<>>
Some(v) == <<v>>

-----------------------------------------------------------------------------
(* Bounds of the model.                                                    *)

MaxLines == 3
MaxSources == 2

-----------------------------------------------------------------------------
(* Log lines.                                                              *)

Channels == <<"e2e", "encode", "pacer", "network",
              "jitter_buf", "packet_buf", "frame_buf", "decode">>

ChannelSet == {Channels[i] : i \in 1..Len(Channels)}

ChannelIndex(c) == CHOOSE i \in 1..Len(Channels) : Channels[i] = c

\* A line carrying the TIMING-BREAKDOWN marker. labels are the <label>=<n>ms
\* fields found after the marker, in line order; values are their integers.
TimingLine(bracket, labels, base) ==
    [marker |-> "TIMING-BREAKDOWN", bracket |-> bracket, labels |-> labels,
     values |-> [i \in 1..Len(labels) |-> 10 * base + i - 1]]

\* A line carrying the VideoQuality-CoreFreeze marker. sep is the text between
\* each label's colon and its number; count, dur, ratio and playback are the
\* four labelled fields, None when the line lacks the field. ratio is the text
\* of the field, a sequence of the characters [\d.] matches.
FreezeLine(bracket, sep, count, dur, ratio, playback) ==
    [marker |-> "VideoQuality-CoreFreeze", bracket |-> bracket, sep |-> sep,
     count |-> count, dur |-> dur, ratio |-> ratio, playback |-> playback]

\* A line carrying the VideoQuality-Bitrate marker.
BitrateLine(bracket, bytes) ==
    [marker |-> "VideoQuality-Bitrate", bracket |-> bracket, bytes |-> bytes]

\* A line with none of the three markers.
OtherLine == [marker |-> ""]

-----------------------------------------------------------------------------
(* Conversions.                                                            *)

DigitChars == <<"0", "1", "2", "3", "4", "5", "6", "7", "8", "9">>

IsDigit(ch) == \E d \in 1..10 : DigitChars[d] = ch

DigitValue(ch) == (CHOOSE d \in 1..10 : DigitChars[d] = ch) - 1

RECURSIVE Pow10(_)
Pow10(n) == IF n = 0 THEN 1 ELSE 10 * Pow10(n - 1)

RECURSIVE DigitsToInt(_)
DigitsToInt(chars) ==
    IF chars = <<>> THEN 0
    ELSE 10 * DigitsToInt(SubSeq(chars, 1, Len(chars) - 1))
         + DigitValue(chars[Len(chars)])

Points(text) == {i \in 1..Len(text) : text[i] = "."}

\* float(text) for a text over [\d.]: a literal iff it holds at most one point
\* and at least one digit; anything else raises ValueError.
IsFloatLiteral(text) ==
    /\ Cardinality(Points(text)) <= 1
    /\ \E i \in 1..Len(text) : IsDigit(text[i])

FloatOf(text) ==
    LET digits == SelectSeq(text, IsDigit)
        after == IF Points(text) = {} THEN 0
                 ELSE Len(text) - (CHOOSE i \in Points(text) : TRUE)
    IN  [num |-> DigitsToInt(digits), den |-> Pow10(after)]

-----------------------------------------------------------------------------
(* The regular expressions.                                                *)

IsWhitespace(sep) == sep \in {"", " ", "  "}

\* re.search(pattern, line) of parse_timing_breakdown: the bracketed marker,
\* then the eight fields in the pattern's order. The result is None or the
\* eight groups.
TimingSearch(line) ==
    LET n == Len(Channels)
        starts == {o \in 0..(Len(line.labels) - n) :
                      SubSeq(line.labels, o + 1, o + n) = Channels}
    IN  IF line.bracket /\ starts # {}
        THEN LET o == CHOOSE x \in starts : \A y \in starts : x <= y
             IN  Some(SubSeq(line.values, o + 1, o + n))
        ELSE None

\* re.search(pattern, line) of parse_freeze_rate: the bracketed marker and all
\* four labelled fields, each after optional whitespace.
FreezeRateSearch(line) ==
    IF /\ line.bracket
       /\ IsWhitespace(line.sep)
       /\ line.count # None /\ line.dur # None
       /\ line.ratio # None /\ line.ratio[1] # <<>>
       /\ line.playback # None
    THEN Some(<<line.count[1], line.dur[1], line.ratio[1], line.playback[1]>>)
    ELSE None

\* re.search(pattern, line) of parse_bitrate.
BitrateSearch(line) ==
    IF line.bracket /\ line.bytes # None THEN Some(<<line.bytes[1]>>) ELSE None

\* re.search(pattern, line) of extract_freeze_durations: no marker in the
\* pattern, exactly one space after each of the two labels, two fields only.
FreezeDurationSearch(line) ==
    IF line.sep = " " /\ line.count # None /\ line.dur # None
    THEN Some(<<line.count[1], line.dur[1]>>)
    ELSE None

-----------------------------------------------------------------------------
(* The body of each scanner's loop, for one line.                          *)

EmptyTimings == [c \in ChannelSet |-> <<>>]

\* Mutant: packet_buf and frame_buf take each other's group.
ParseTimingLineSwapped(t, line) ==
    IF line.marker = "TIMING-BREAKDOWN"
    THEN LET match == TimingSearch(line)
             group(c) == IF c = "packet_buf" THEN 7
                         ELSE IF c = "frame_buf" THEN 6
                         ELSE ChannelIndex(c)
         IN  IF match # None
             THEN [c \in ChannelSet |-> Append(t[c], match[1][group(c)])]
             ELSE t
    ELSE t

ParseTimingLine(t, line) ==
    IF line.marker = "TIMING-BREAKDOWN"
    THEN LET match == TimingSearch(line)
         IN  IF match # None
             THEN [c \in ChannelSet |->
                      Append(t[c], match[1][ChannelIndex(c)])]
             ELSE t
    ELSE t

\* float(match.group(3)) raises ValueError on a text that is no literal.
ParseFreezeRateRaises(line) ==
    /\ line.marker = "VideoQuality-CoreFreeze"
    /\ FreezeRateSearch(line) # None
    /\ ~IsFloatLiteral(FreezeRateSearch(line)[1][3])

\* Mutant: a marker line that fails the pattern clears the snapshot.
ParseFreezeRateLineClearing(info, line) ==
    IF line.marker = "VideoQuality-CoreFreeze"
    THEN LET match == FreezeRateSearch(line)
         IN  IF match # None
             THEN Some([freeze_count |-> match[1][1],
                        freeze_duration_ms |-> match[1][2],
                        rebuffering_ratio |-> FloatOf(match[1][3]),
                        playback_duration_ms |-> match[1][4]])
             ELSE None
    ELSE info

ParseFreezeRateLine(info, line) ==
    IF line.marker = "VideoQuality-CoreFreeze"
    THEN LET match == FreezeRateSearch(line)
         IN  IF match # None
             THEN Some([freeze_count |-> match[1][1],
                        freeze_duration_ms |-> match[1][2],
                        rebuffering_ratio |-> FloatOf(match[1][3]),
                        playback_duration_ms |-> match[1][4]])
             ELSE info
    ELSE info

ParseBitrateLine(bytes, line) ==
    IF line.marker = "VideoQuality-Bitrate"
    THEN LET match == BitrateSearch(line)
         IN  IF match # None THEN Some(match[1][1]) ELSE bytes
    ELSE bytes

\* Mutant: count >= prev_count instead of count > prev_count.
ExtractFreezeLineNotLess(st, line) ==
    IF line.marker = "VideoQuality-CoreFreeze"
    THEN LET match == FreezeDurationSearch(line)
         IN  IF match # None /\ match[1][1] >= st.prev_count
             THEN [prev_count |-> match[1][1], prev_dur |-> match[1][2],
                   freeze_durations |->
                       Append(st.freeze_durations, match[1][2] - st.prev_dur)]
             ELSE st
    ELSE st

\* Mutant: the delta is taken the wrong way round.
ExtractFreezeLineReversed(st, line) ==
    IF line.marker = "VideoQuality-CoreFreeze"
    THEN LET match == FreezeDurationSearch(line)
         IN  IF match # None /\ match[1][1] > st.prev_count
             THEN [prev_count |-> match[1][1], prev_dur |-> match[1][2],
                   freeze_durations |->
                       Append(st.freeze_durations, st.prev_dur - match[1][2])]
             ELSE st
    ELSE st

\* Mutant: the running state advances on every snapshot, event or not.
ExtractFreezeLineAdvancing(st, line) ==
    IF line.marker = "VideoQuality-CoreFreeze"
    THEN LET match == FreezeDurationSearch(line)
         IN  IF match # None
             THEN [prev_count |-> match[1][1], prev_dur |-> match[1][2],
                   freeze_durations |->
                       IF match[1][1] > st.prev_count
                       THEN Append(st.freeze_durations,
                                   match[1][2] - st.prev_dur)
                       ELSE st.freeze_durations]
             ELSE st
    ELSE st

\* st is [prev_count, prev_dur, freeze_durations].
ExtractFreezeLine(st, line) ==
    IF line.marker = "VideoQuality-CoreFreeze"
    THEN LET match == FreezeDurationSearch(line)
         IN  IF match # None
             THEN LET count == match[1][1]
                      dur == match[1][2]
                  IN  IF count > st.prev_count
                      THEN [prev_count |-> count, prev_dur |-> dur,
                            freeze_durations |->
                                Append(st.freeze_durations, dur - st.prev_dur)]
                      ELSE st
             ELSE st
    ELSE st

-----------------------------------------------------------------------------
(* calc_stats.                                                             *)

Rat(n, d) == [num |-> n, den |-> d]

RECURSIVE SeqSum(_)
SeqSum(s) == IF s = <<>> THEN 0 ELSE Head(s) + SeqSum(Tail(s))

SeqSquares(s) == [i \in 1..Len(s) |-> s[i] * s[i]]

\* np.percentile(arr, q), linear interpolation between the two nearest ranks
\* of the sorted array, as a rational over 100.
Percentile(data, q) ==
    LET sorted == SortSeq(data, LAMBDA a, b : a < b)
        pos == q * (Len(data) - 1)
        lo == pos \div 100
        frac == pos % 100
    IN  IF frac = 0 THEN Rat(100 * sorted[lo + 1], 100)
        ELSE Rat(100 * sorted[lo + 1]
                 + frac * (sorted[lo + 2] - sorted[lo + 1]), 100)

\* std is kept squared: the population variance (sum(x^2)/n - mean^2).
CalcStats(data) ==
    IF data = <<>> THEN None
    ELSE LET n == Len(data)
             sorted == SortSeq(data, LAMBDA a, b : a < b)
         IN  Some([mean |-> Rat(SeqSum(data), n),
                   std |-> Rat(n * SeqSum(SeqSquares(data))
                               - SeqSum(data) * SeqSum(data), n * n),
                   min |-> Rat(sorted[1], 1),
                   p10 |-> Percentile(data, 10),
                   p25 |-> Percentile(data, 25),
                   p50 |-> Percentile(data, 50),
                   p75 |-> Percentile(data, 75),
                   p90 |-> Percentile(data, 90),
                   max |-> Rat(sorted[n], 1),
                   count |-> n])

-----------------------------------------------------------------------------
(* analyze_log, after the three scans.                                     *)

\* Python's truth value of an int that may be None, and of a float that may.
TruthyInt(v) == v # None /\ v[1] # 0

TruthyFloat(v) == v # None /\ v[1].num # 0

\* Mutant: every channel gets a key, an empty one a summary of zeros.
TimingStatsZeroFilled(t) ==
    [c \in ChannelSet |->
        IF t[c] # <<>> THEN CalcStats(t[c])[1]
        ELSE [mean |-> Rat(0, 1), std |-> Rat(0, 1), min |-> Rat(0, 1),
              p10 |-> Rat(0, 1), p25 |-> Rat(0, 1), p50 |-> Rat(0, 1),
              p75 |-> Rat(0, 1), p90 |-> Rat(0, 1), max |-> Rat(0, 1),
              count |-> 0]]

\* results['timing']: a key for each channel whose list is non-empty.
TimingStats(t) ==
    [c \in {c \in ChannelSet : t[c] # <<>>} |-> CalcStats(t[c])[1]]

\* bytes_received * 8 / playback_duration_ms / 1000, guarded by the truth
\* values of bytes_received and freeze_info.
BitrateMbps(bytes, info) ==
    IF TruthyInt(bytes) /\ info # None /\ info[1].playback_duration_ms > 0
    THEN Some(Rat(bytes[1] * 8, info[1].playback_duration_ms * 1000))
    ELSE None

AnalyzeResults(name, t, info, bytes) ==
    [file |-> name,
     timing |-> TimingStats(t),
     freeze |-> info,
     bitrate_mbps |-> BitrateMbps(bytes, info)]

-----------------------------------------------------------------------------
(* main's directory loop: the one-line summary of a source.                *)

Str(text) == [type |-> "str", value |-> text]

Float(r) == [type |-> "float", value |-> r]

Times100(r) == Rat(r.num * 100, r.den)

\* results['timing'].get('e2e', {}).get('mean', 'N/A')
SummaryE2E(res) ==
    IF "e2e" \in DOMAIN res.timing THEN Float(res.timing["e2e"].mean)
    ELSE Str("N/A")

SummaryFreeze(res) ==
    IF res.freeze # None THEN Float(Times100(res.freeze[1].rebuffering_ratio))
    ELSE Str("N/A")

SummaryBitrate(res) ==
    IF TruthyFloat(res.bitrate_mbps) THEN Float(res.bitrate_mbps[1])
    ELSE Str("N/A")

\* The format specs of the f-string main picks: those of line 355 when e2e
\* is a float, the bare ones of line 357 otherwise.
SummarySpecs(res) ==
    IF SummaryE2E(res).type = "float"
    THEN [e2e |-> ".1f", freeze |-> ".2f", bitrate |-> ".2f"]
    ELSE [e2e |-> "", freeze |-> "", bitrate |-> ""]

\* format(value, spec): a spec ending in f on a str raises ValueError.
FormatRaises(v, spec) == spec # "" /\ v.type = "str"

SummaryRaises(res) ==
    \/ FormatRaises(SummaryE2E(res), SummarySpecs(res).e2e)
    \/ FormatRaises(SummaryFreeze(res), SummarySpecs(res).freeze)
    \/ FormatRaises(SummaryBitrate(res), SummarySpecs(res).bitrate)

SummaryLine(name, res) ==
    [name |-> name,
     e2e |-> [spec |-> SummarySpecs(res).e2e, value |-> SummaryE2E(res)],
     freeze |-> [spec |-> SummarySpecs(res).freeze,
                 value |-> SummaryFreeze(res)],
     bitrate |-> [spec |-> SummarySpecs(res).bitrate,
                  value |-> SummaryBitrate(res)]]

\* print_results: which blocks of the report are printed.
ReportBlocks(res) ==
    [file |-> res.file,
     e2e |-> "e2e" \in DOMAIN res.timing,
     breakdown |-> DOMAIN res.timing \ {"e2e"},
     freeze |-> res.freeze # None,
     bitrate |-> TruthyFloat(res.bitrate_mbps)]

\* plot_freeze_analysis: the rate appended for one file.
FreezeRate(info) ==
    IF info # None THEN Times100(info[1].rebuffering_ratio) ELSE Rat(0, 1)

-----------------------------------------------------------------------------
(* Inputs: the lines and files the runs are drawn from.                    *)

Ratio25 == <<"0", ".", "2", "5">>
Ratio5 == <<"0", ".", "5">>
RatioBad == <<"1", ".", "2", ".", "3">>

\* A complete freeze line as the receiver writes it.
FullFreezeLine(count, dur) ==
    FreezeLine(TRUE, " ", Some(count), Some(dur), Some(Ratio25), Some(8000))

TimingLines ==
    { TimingLine(TRUE, Channels, 0),
      TimingLine(TRUE, Channels, 1),
      TimingLine(TRUE, SubSeq(Channels, 1, 5), 2),  \* cut after jitter_buf
      TimingLine(FALSE, Channels, 3) }              \* marker without brackets

BitrateLines ==
    { BitrateLine(TRUE, Some(0)),
      BitrateLine(TRUE, Some(1000000)),
      BitrateLine(TRUE, None) }                     \* marker, no byte count

\* Lines of a file analyze_log reads.
AnalyzeLines ==
    TimingLines \cup BitrateLines \cup
    { FullFreezeLine(1, 100),
      FreezeLine(TRUE, " ", Some(2), Some(250), Some(Ratio5), Some(0)),
      FreezeLine(TRUE, " ", Some(3), Some(400), None, None),
      FreezeLine(TRUE, " ", Some(1), Some(100), Some(RatioBad), Some(8000)),
      OtherLine }

\* Lines of a file the --freeze comparison reads.
FreezeLines ==
    { FullFreezeLine(c, d) : c \in {0, 1, 2}, d \in {100, 250} } \cup
    { FreezeLine(TRUE, " ", Some(1), Some(100), None, None),
      FreezeLine(TRUE, "", Some(1), Some(100), Some(Ratio5), Some(8000)),
      FreezeLine(FALSE, " ", Some(2), Some(250), Some(Ratio25), Some(8000)),
      FreezeLine(TRUE, " ", Some(1), Some(100), Some(RatioBad), Some(8000)),
      FreezeLine(TRUE, " ", None, Some(100), Some(Ratio25), Some(8000)),
      OtherLine }

\* The snapshots (1,100), (2,250), (2,250), (4,400).
ExampleLog ==
    << FullFreezeLine(1, 100), FullFreezeLine(2, 250),
       FullFreezeLine(2, 250), FullFreezeLine(4, 400) >>

Logs(lines) == UNION {[1..n -> lines] : n \in 0..MaxLines}

Readable(lines) == [readable |-> TRUE, lines |-> lines]

Unreadable == [readable |-> FALSE, lines |-> <<>>]

\* Files of a directory: unreadable, or any selection of one timing line, one
\* freeze line and one bitrate line.
DirFiles ==
    {Unreadable} \cup
    { Readable(t \o f \o b) :
        t \in {<<>>, <<TimingLine(TRUE, Channels, 1)>>},
        f \in {<<>>, <<FullFreezeLine(1, 100)>>},
        b \in {<<>>, <<BitrateLine(TRUE, Some(1000000))>>} }

Orderings(n) ==
    {p \in [1..n -> 1..n] : \A i, j \in 1..n : p[i] = p[j] => i = j}

-----------------------------------------------------------------------------
(* Initial states.                                                         *)

InitLocals ==
    /\ remaining = <<>>
    /\ log_file = None
    /\ pc = "main"
    /\ lineno = 0
    /\ timings = EmptyTimings
    /\ freeze_info = None
    /\ bytes_received = None
    /\ prev_count = 0
    /\ prev_dur = 0
    /\ freeze_durations = <<>>
    /\ results = None
    /\ all_results = <<>>
    /\ freeze_rates = <<>>
    /\ stdout = <<>>
    /\ exc = None

\* python extract_qoe_metrics.py <log_file>
InitFile ==
    /\ mode = "file"
    /\ log_files = <<1>>
    /\ files \in [{1} -> {Unreadable}
                         \cup {Readable(l) : l \in Logs(AnalyzeLines)}]
    /\ InitLocals

\* python extract_qoe_metrics.py <log_dir>: the glob finds the files in any
\* order.
InitDir ==
    /\ mode = "dir"
    /\ \E n \in 0..MaxSources :
          /\ files \in [1..n -> DirFiles]
          /\ log_files \in Orderings(n)
    /\ InitLocals

\* python extract_qoe_metrics.py <log> --freeze
InitFreeze ==
    /\ mode = "freeze"
    /\ log_files = <<1>>
    /\ files \in [{1} -> {Unreadable, Readable(ExampleLog)}
                         \cup {Readable(l) : l \in Logs(FreezeLines)}]
    /\ InitLocals

Init == InitFile \/ InitDir \/ InitFreeze

-----------------------------------------------------------------------------
(* Actions.                                                                *)

CurrentFile == files[log_file[1]]

CurrentLine == CurrentFile.lines[lineno]

AtLine == lineno <= Len(CurrentFile.lines)

Raise(type, where) ==
    /\ pc' = "raised"
    /\ exc' = Some([type |-> type, where |-> where])

\* main, lines 323-327: a single file.
MainFile ==
    /\ pc = "main" /\ mode = "file"
    /\ log_file' = Some(log_files[1])
    /\ pc' = "analyze_log"
    /\ UNCHANGED <<mode, files, log_files, remaining, lineno, timings,
                   freeze_info, bytes_received, prev_count, prev_dur,
                   freeze_durations, results, all_results, freeze_rates,
                   stdout, exc>>

\* main, lines 337-344: a directory; the loop runs over sorted(log_files).
MainDirectory ==
    /\ pc = "main" /\ mode = "dir"
    /\ remaining' = SortSeq(log_files, LAMBDA a, b : a < b)
    /\ all_results' = <<>>
    /\ stdout' = Append(stdout, [found |-> Len(log_files)])
    /\ pc' = "for"
    /\ UNCHANGED <<mode, files, log_files, log_file, lineno, timings,
                   freeze_info, bytes_received, prev_count, prev_dur,
                   freeze_durations, results, freeze_rates, exc>>

\* main, lines 313-320, and plot_freeze_analysis, lines 226-231.
MainFreeze ==
    /\ pc = "main" /\ mode = "freeze"
    /\ remaining' = log_files
    /\ freeze_rates' = <<>>
    /\ pc' = "for"
    /\ UNCHANGED <<mode, files, log_files, log_file, lineno, timings,
                   freeze_info, bytes_received, prev_count, prev_dur,
                   freeze_durations, results, all_results, stdout, exc>>

\* for log_file in ...: the next file.
NextLogFile ==
    /\ pc = "for" /\ remaining # <<>>
    /\ log_file' = Some(Head(remaining))
    /\ remaining' = Tail(remaining)
    /\ pc' = IF mode = "freeze" THEN "plot_log_file" ELSE "analyze_log"
    /\ UNCHANGED <<mode, files, log_files, lineno, timings, freeze_info,
                   bytes_received, prev_count, prev_dur, freeze_durations,
                   results, all_results, freeze_rates, stdout, exc>>

\* for log_file in ...: no file is left.
LoopEnd ==
    /\ pc = "for" /\ remaining = <<>>
    /\ pc' = "done"
    /\ UNCHANGED <<mode, files, log_files, remaining, log_file, lineno,
                   timings, freeze_info, bytes_received, prev_count, prev_dur,
                   freeze_durations, results, all_results, freeze_rates,
                   stdout, exc>>

\* open(log_file) of the first scan fails: nothing catches the exception.
OpenRaises ==
    /\ pc \in {"analyze_log", "plot_log_file"}
    /\ ~CurrentFile.readable
    /\ Raise("OSError", IF pc = "analyze_log" THEN "parse_timing_breakdown"
                        ELSE "extract_freeze_durations")
    /\ UNCHANGED <<mode, files, log_files, remaining, log_file, lineno,
                   timings, freeze_info, bytes_received, prev_count, prev_dur,
                   freeze_durations, results, all_results, freeze_rates,
                   stdout>>

\* analyze_log calls parse_timing_breakdown, which opens the file.
TimingOpen ==
    /\ pc = "analyze_log" /\ CurrentFile.readable
    /\ timings' = EmptyTimings
    /\ lineno' = 1
    /\ pc' = "parse_timing_breakdown"
    /\ UNCHANGED <<mode, files, log_files, remaining, log_file, freeze_info,
                   bytes_received, prev_count, prev_dur, freeze_durations,
                   results, all_results, freeze_rates, stdout, exc>>

TimingLineStep ==
    /\ pc = "parse_timing_breakdown" /\ AtLine
    /\ timings' = ParseTimingLine(timings, CurrentLine)
    /\ lineno' = lineno + 1
    /\ UNCHANGED <<mode, files, log_files, remaining, log_file, pc,
                   freeze_info, bytes_received, prev_count, prev_dur,
                   freeze_durations, results, all_results, freeze_rates,
                   stdout, exc>>

\* parse_timing_breakdown returns; analyze_log calls parse_freeze_rate.
TimingReturn ==
    /\ pc = "parse_timing_breakdown" /\ ~AtLine
    /\ freeze_info' = None
    /\ lineno' = 1
    /\ pc' = "parse_freeze_rate"
    /\ UNCHANGED <<mode, files, log_files, remaining, log_file, timings,
                   bytes_received, prev_count, prev_dur, freeze_durations,
                   results, all_results, freeze_rates, stdout, exc>>

FreezeRateLineStep ==
    /\ pc = "parse_freeze_rate" /\ AtLine
    /\ IF ParseFreezeRateRaises(CurrentLine)
       THEN /\ Raise("ValueError", "parse_freeze_rate")
            /\ UNCHANGED <<freeze_info, lineno>>
       ELSE /\ freeze_info' = ParseFreezeRateLine(freeze_info, CurrentLine)
            /\ lineno' = lineno + 1
            /\ UNCHANGED <<pc, exc>>
    /\ UNCHANGED <<mode, files, log_files, remaining, log_file, timings,
                   bytes_received, prev_count, prev_dur, freeze_durations,
                   results, all_results, freeze_rates, stdout>>

\* parse_freeze_rate returns to analyze_log, which calls parse_bitrate.
FreezeRateReturn ==
    /\ pc = "parse_freeze_rate" /\ ~AtLine /\ mode # "freeze"
    /\ bytes_received' = None
    /\ lineno' = 1
    /\ pc' = "parse_bitrate"
    /\ UNCHANGED <<mode, files, log_files, remaining, log_file, timings,
                   freeze_info, prev_count, prev_dur, freeze_durations,
                   results, all_results, freeze_rates, stdout, exc>>

BitrateLineStep ==
    /\ pc = "parse_bitrate" /\ AtLine
    /\ bytes_received' = ParseBitrateLine(bytes_received, CurrentLine)
    /\ lineno' = lineno + 1
    /\ UNCHANGED <<mode, files, log_files, remaining, log_file, pc, timings,
                   freeze_info, prev_count, prev_dur, freeze_durations,
                   results, all_results, freeze_rates, stdout, exc>>

\* parse_bitrate returns; analyze_log, lines 106-122, builds its result.
AnalyzeLogReturn ==
    /\ pc = "parse_bitrate" /\ ~AtLine
    /\ results' = Some(AnalyzeResults(log_file[1], timings, freeze_info,
                                      bytes_received))
    /\ pc' = IF mode = "dir" THEN "summary" ELSE "print_results"
    /\ UNCHANGED <<mode, files, log_files, remaining, log_file, lineno,
                   timings, freeze_info, bytes_received, prev_count, prev_dur,
                   freeze_durations, all_results, freeze_rates, stdout, exc>>

\* main, line 328: print_results.
PrintResults ==
    /\ pc = "print_results"
    /\ stdout' = Append(stdout, ReportBlocks(results[1]))
    /\ pc' = "done"
    /\ UNCHANGED <<mode, files, log_files, remaining, log_file, lineno,
                   timings, freeze_info, bytes_received, prev_count, prev_dur,
                   freeze_durations, results, all_results, freeze_rates, exc>>

\* main, lines 346-357: append the result and print the summary line.
DirSummary ==
    /\ pc = "summary"
    /\ all_results' = Append(all_results, results[1])
    /\ IF SummaryRaises(results[1])
       THEN /\ Raise("ValueError", "main")
            /\ UNCHANGED stdout
       ELSE /\ stdout' = Append(stdout, SummaryLine(log_file[1], results[1]))
            /\ pc' = "for"
            /\ UNCHANGED exc
    /\ UNCHANGED <<mode, files, log_files, remaining, log_file, lineno,
                   timings, freeze_info, bytes_received, prev_count, prev_dur,
                   freeze_durations, results, freeze_rates>>

\* plot_freeze_analysis calls extract_freeze_durations, which opens the file.
ExtractOpen ==
    /\ pc = "plot_log_file" /\ CurrentFile.readable
    /\ prev_count' = 0
    /\ prev_dur' = 0
    /\ freeze_durations' = <<>>
    /\ lineno' = 1
    /\ pc' = "extract_freeze_durations"
    /\ UNCHANGED <<mode, files, log_files, remaining, log_file, timings,
                   freeze_info, bytes_received, results, all_results,
                   freeze_rates, stdout, exc>>

ExtractLineStep ==
    /\ pc = "extract_freeze_durations" /\ AtLine
    /\ LET st == ExtractFreezeLine(
                    [prev_count |-> prev_count, prev_dur |-> prev_dur,
                     freeze_durations |-> freeze_durations], CurrentLine)
       IN  /\ prev_count' = st.prev_count
           /\ prev_dur' = st.prev_dur
           /\ freeze_durations' = st.freeze_durations
    /\ lineno' = lineno + 1
    /\ UNCHANGED <<mode, files, log_files, remaining, log_file, pc, timings,
                   freeze_info, bytes_received, results, all_results,
                   freeze_rates, stdout, exc>>

\* extract_freeze_durations returns; plot_freeze_analysis calls
\* parse_freeze_rate.
ExtractReturn ==
    /\ pc = "extract_freeze_durations" /\ ~AtLine
    /\ freeze_info' = None
    /\ lineno' = 1
    /\ pc' = "parse_freeze_rate"
    /\ UNCHANGED <<mode, files, log_files, remaining, log_file, timings,
                   bytes_received, prev_count, prev_dur, freeze_durations,
                   results, all_results, freeze_rates, stdout, exc>>

\* parse_freeze_rate returns to plot_freeze_analysis, lines 245-250.
PlotFreezeRate ==
    /\ pc = "parse_freeze_rate" /\ ~AtLine /\ mode = "freeze"
    /\ freeze_rates' = Append(freeze_rates, FreezeRate(freeze_info))
    /\ stdout' = Append(stdout, [name |-> log_file[1],
                                 freezes |-> Len(freeze_durations),
                                 rate |-> FreezeRate(freeze_info)])
    /\ pc' = "for"
    /\ UNCHANGED <<mode, files, log_files, remaining, log_file, lineno,
                   timings, freeze_info, bytes_received, prev_count, prev_dur,
                   freeze_durations, results, all_results, exc>>

-----------------------------------------------------------------------------
(* Specifications: the program, and each of main's three branches.         *)

Next ==
    \/ MainFile \/ MainDirectory \/ MainFreeze
    \/ NextLogFile \/ LoopEnd \/ OpenRaises
    \/ TimingOpen \/ TimingLineStep \/ TimingReturn
    \/ FreezeRateLineStep \/ FreezeRateReturn
    \/ BitrateLineStep \/ AnalyzeLogReturn
    \/ PrintResults \/ DirSummary
    \/ ExtractOpen \/ ExtractLineStep \/ ExtractReturn \/ PlotFreezeRate

Spec == Init /\ [][Next]_vars

NextFile ==
    \/ MainFile \/ OpenRaises
    \/ TimingOpen \/ TimingLineStep \/ TimingReturn
    \/ FreezeRateLineStep \/ FreezeRateReturn
    \/ BitrateLineStep \/ AnalyzeLogReturn
    \/ PrintResults

SpecFile == InitFile /\ [][NextFile]_vars

NextDir ==
    \/ MainDirectory \/ NextLogFile \/ LoopEnd \/ OpenRaises
    \/ TimingOpen \/ TimingLineStep \/ TimingReturn
    \/ FreezeRateLineStep \/ FreezeRateReturn
    \/ BitrateLineStep \/ AnalyzeLogReturn
    \/ DirSummary

SpecDir == InitDir /\ [][NextDir]_vars

NextFreeze ==
    \/ MainFreeze \/ NextLogFile \/ LoopEnd \/ OpenRaises
    \/ ExtractOpen \/ ExtractLineStep \/ ExtractReturn
    \/ FreezeRateLineStep \/ PlotFreezeRate

SpecFreeze == InitFreeze /\ [][NextFreeze]_vars

-----------------------------------------------------------------------------
(* Vocabulary of the properties.                                           *)

\* The lines the running scan has consumed.
Scanned == SubSeq(CurrentFile.lines, 1, lineno - 1)

MaxOf(S) == CHOOSE x \in S : \A y \in S : y <= x

\* The last of a set of line indices, 0 if there is none.
LastIndex(indices) == MaxOf({0} \cup indices)

\* The fold of section 4.2 over a sequence of <<count, dur>> snapshots.
RECURSIVE Reconstruct(_, _)
Reconstruct(snaps, st) ==
    IF snaps = <<>> THEN st
    ELSE LET count == Head(snaps)[1]
             dur == Head(snaps)[2]
         IN  Reconstruct(Tail(snaps),
                 IF count > st.prev_count
                 THEN [prev_count |-> count, prev_dur |-> dur,
                       freeze_durations |->
                           Append(st.freeze_durations, dur - st.prev_dur)]
                 ELSE st)

ReconstructStart ==
    [prev_count |-> 0, prev_dur |-> 0, freeze_durations |-> <<>>]

ReconstructState ==
    [prev_count |-> prev_count, prev_dur |-> prev_dur,
     freeze_durations |-> freeze_durations]

\* A line extract_freeze_durations reads a (count, dur) pair from.
IsDurationSnapshot(line) ==
    line.marker = "VideoQuality-CoreFreeze" /\ FreezeDurationSearch(line) # None

\* A line parse_freeze_rate reads a FreezeSnapshot from.
IsFreezeSnapshot(line) ==
    line.marker = "VideoQuality-CoreFreeze" /\ FreezeRateSearch(line) # None

IsBitrateSnapshot(line) ==
    line.marker = "VideoQuality-Bitrate" /\ BitrateSearch(line) # None

IsTimingSample(line) ==
    line.marker = "TIMING-BREAKDOWN" /\ TimingSearch(line) # None

CountDur(lines) ==
    [i \in 1..Len(lines) |-> <<lines[i].count[1], lines[i].dur[1]>>]

\* The (count, dur) pairs extract_freeze_durations has read so far.
DurationSnapshots == CountDur(SelectSeq(Scanned, IsDurationSnapshot))

\* The (count, dur) pairs of the FreezeSnapshots among the same lines.
FreezeSnapshots == CountDur(SelectSeq(Scanned, IsFreezeSnapshot))

Extracting == pc = "extract_freeze_durations"

-----------------------------------------------------------------------------
(* C1. extract_freeze_durations is the fold of section 4.2 over the        *)
(* (count, dur) snapshots it reads, in file order, from (0, 0): a snapshot *)
(* whose count exceeds prev_count appends the one event dur - prev_dur and *)
(* becomes the running state, any other snapshot changes nothing; and the  *)
(* snapshots (1,100), (2,250), (2,250), (4,400) give [100, 150, 150].      *)
C1_FoldOverSnapshots ==
    Extracting =>
        /\ ReconstructState = Reconstruct(DurationSnapshots, ReconstructStart)
        /\ DurationSnapshots = <<<<1, 100>>, <<2, 250>>, <<2, 250>>, <<4, 400>>>>
              => freeze_durations = <<100, 150, 150>>

C1_Witness ==
    /\ Extracting
    /\ DurationSnapshots = <<<<1, 100>>, <<2, 250>>, <<2, 250>>, <<4, 400>>>>
    /\ freeze_durations = <<100, 150, 150>>
    /\ prev_count = 4 /\ prev_dur = 400

-----------------------------------------------------------------------------
(* C7. The events are reconstructed from exactly the FreezeSnapshots of    *)
(* the source: the running state and the output of                         *)
(* extract_freeze_durations are the fold over the lines that yield a       *)
(* FreezeSnapshot in parse_freeze_rate, and over no other line.            *)
C7_EventsFromFreezeSnapshots ==
    Extracting =>
        ReconstructState = Reconstruct(FreezeSnapshots, ReconstructStart)

-----------------------------------------------------------------------------
(* C8. If the counts and the total durations of the snapshots read are     *)
(* both non-decreasing in file order, every emitted duration is >= 0; and  *)
(* whatever the input, the scan of a line never raises: the step for the   *)
(* next line is always possible.                                           *)
Monotonic(snaps) ==
    \A i, j \in 1..Len(snaps) :
        i <= j => snaps[i][1] <= snaps[j][1] /\ snaps[i][2] <= snaps[j][2]

C8_NonNegativeWhenMonotonic ==
    Extracting =>
        /\ Monotonic(DurationSnapshots) =>
              \A i \in 1..Len(freeze_durations) : freeze_durations[i] >= 0
        /\ AtLine => ENABLED ExtractLineStep
        /\ exc = None

C8_Witness ==
    /\ Extracting /\ ~AtLine
    /\ Len(DurationSnapshots) = 3
    /\ Monotonic(DurationSnapshots)
    /\ Len(freeze_durations) = 2
    /\ freeze_durations[2] > 0

\* The other half: a decreasing total is tolerated and not corrected.
C8_NegativeReachable ==
    /\ Extracting /\ ~AtLine
    /\ ~Monotonic(DurationSnapshots)
    /\ \E i \in 1..Len(freeze_durations) : freeze_durations[i] < 0

-----------------------------------------------------------------------------
(* C10. After any prefix: prev_count is the largest count read so far (0   *)
(* if none), there are at most prev_count events, and the durations sum to *)
(* prev_dur, which is the total of the snapshot that emitted the last      *)
(* event (0 if none did) - monotonic input or not.                         *)
C10_RunningStateInvariant ==
    Extracting =>
        LET snaps == DurationSnapshots
            top == MaxOf({0} \cup {snaps[i][1] : i \in 1..Len(snaps)})
            emitters == {i \in 1..Len(snaps) :
                            \A j \in 1..(i - 1) : snaps[j][1] < snaps[i][1]}
            live == {i \in emitters : snaps[i][1] > 0}
        IN  /\ prev_count = top
            /\ Len(freeze_durations) <= prev_count
            /\ Len(freeze_durations) = Cardinality(live)
            /\ SeqSum(freeze_durations) = prev_dur
            /\ prev_dur = IF live = {} THEN 0 ELSE snaps[MaxOf(live)][2]

C10_Witness ==
    /\ Extracting /\ ~AtLine
    /\ DurationSnapshots = <<<<2, 250>>, <<1, 100>>, <<2, 100>>>>
    /\ prev_count = 2 /\ prev_dur = 250
    /\ freeze_durations = <<250>>

-----------------------------------------------------------------------------
(* C3. Last-wins: after any scanned prefix, parse_freeze_rate holds the    *)
(* snapshot of the last line that matched the four-field pattern, every    *)
(* field taken from that line, and None if no line matched; a marker line  *)
(* that fails the pattern neither overwrites nor clears it. parse_bitrate  *)
(* holds the byte count of the last line that matched its pattern.         *)
SnapshotOfLine(line) ==
    [freeze_count |-> line.count[1],
     freeze_duration_ms |-> line.dur[1],
     rebuffering_ratio |-> FloatOf(line.ratio[1]),
     playback_duration_ms |-> line.playback[1]]

LastFreezeSnapshot(lines) ==
    LET last == LastIndex({i \in 1..Len(lines) : IsFreezeSnapshot(lines[i])})
    IN  IF last = 0 THEN None ELSE Some(SnapshotOfLine(lines[last]))

LastByteCount(lines) ==
    LET last == LastIndex({i \in 1..Len(lines) : IsBitrateSnapshot(lines[i])})
    IN  IF last = 0 THEN None ELSE Some(lines[last].bytes[1])

C3_LastWins ==
    /\ pc = "parse_freeze_rate" => freeze_info = LastFreezeSnapshot(Scanned)
    /\ pc = "parse_bitrate" => bytes_received = LastByteCount(Scanned)

\* Two different snapshots, then a marker line without ratio and playback.
C3_Witness ==
    /\ pc = "parse_freeze_rate" /\ lineno = 4
    /\ IsFreezeSnapshot(Scanned[1]) /\ IsFreezeSnapshot(Scanned[2])
    /\ Scanned[1].count # Scanned[2].count
    /\ Scanned[1].playback # Scanned[2].playback
    /\ Scanned[3].marker = "VideoQuality-CoreFreeze"
    /\ ~IsFreezeSnapshot(Scanned[3])
    /\ freeze_info = Some(SnapshotOfLine(Scanned[2]))

-----------------------------------------------------------------------------
(* C4. After any scanned prefix, each of the eight channel lists holds,    *)
(* in order, the value of its own field from each line that matched the    *)
(* strict pattern, so all eight have length N, the number of such lines;   *)
(* any other line changes nothing, and the scan can always take the next   *)
(* line.                                                                   *)
FieldOf(line, c) ==
    line.values[CHOOSE i \in 1..Len(line.labels) : line.labels[i] = c]

C4_ChannelsInStep ==
    pc = "parse_timing_breakdown" =>
        LET samples == SelectSeq(Scanned, IsTimingSample)
        IN  /\ \A c \in ChannelSet :
                  timings[c] = [i \in 1..Len(samples) |-> FieldOf(samples[i], c)]
            /\ AtLine => ENABLED TimingLineStep
            /\ exc = None

\* A cut line and an unbracketed line between two well-formed ones.
C4_Witness ==
    /\ pc = "parse_timing_breakdown" /\ lineno = 4
    /\ IsTimingSample(Scanned[1])
    /\ Scanned[2].marker = "TIMING-BREAKDOWN" /\ ~IsTimingSample(Scanned[2])
    /\ IsTimingSample(Scanned[3])
    /\ Scanned[1] # Scanned[3]
    /\ \A c \in ChannelSet : Len(timings[c]) = 2

-----------------------------------------------------------------------------
(* C9. Absence is never zero: calc_stats of no samples is None, and the    *)
(* timing mapping analyze_log returns has a key for a channel iff the      *)
(* source has a matching timing line, with count the number of those       *)
(* lines; with no freeze snapshot in the source, freeze is None.           *)
C9_AbsenceNotZero ==
    /\ CalcStats(<<>>) = None
    /\ pc = "print_results" =>
          LET lines == CurrentFile.lines
              n == Len(SelectSeq(lines, IsTimingSample))
              res == results[1]
          IN  /\ DOMAIN res.timing = IF n = 0 THEN {} ELSE ChannelSet
              /\ \A c \in DOMAIN res.timing : res.timing[c].count = n
              /\ \A c \in ChannelSet :
                    c \in DOMAIN res.timing <=> timings[c] # <<>>
              /\ LastFreezeSnapshot(lines) = None => res.freeze = None

\* A source with marker lines but no sample and no snapshot.
C9_Witness ==
    /\ pc = "print_results"
    /\ Len(CurrentFile.lines) = 3
    /\ \E i \in 1..3 : CurrentFile.lines[i].marker = "TIMING-BREAKDOWN"
    /\ \E i \in 1..3 : CurrentFile.lines[i].marker = "VideoQuality-CoreFreeze"
    /\ DOMAIN results[1].timing = {}
    /\ results[1].freeze = None

-----------------------------------------------------------------------------
(* C2. bitrate_mbps is present exactly when a bitrate snapshot was matched *)
(* (any byte count >= 0, 0 included), a freeze snapshot was matched and    *)
(* its playback_duration_ms > 0, and is then                               *)
(* payload_bytes_received * 8 / playback_duration_ms / 1000.               *)
C2_BitratePresentExactlyWhen ==
    pc = "print_results" =>
        LET bytes == LastByteCount(CurrentFile.lines)
            snap == LastFreezeSnapshot(CurrentFile.lines)
        IN  results[1].bitrate_mbps =
               IF bytes # None /\ snap # None
                  /\ snap[1].playback_duration_ms > 0
               THEN Some(Rat(bytes[1] * 8, snap[1].playback_duration_ms * 1000))
               ELSE None

-----------------------------------------------------------------------------
(* C5. Directory mode: a source that cannot be opened does not abort the   *)
(* run; when the run ends every source, in sorted order, has its summary   *)
(* line, the failing one with all fields N/A.                              *)
SummaryLines == SelectSeq(stdout, LAMBDA out : "e2e" \in DOMAIN out)

AllNA(out) ==
    /\ out.e2e.value = Str("N/A")
    /\ out.freeze.value = Str("N/A")
    /\ out.bitrate.value = Str("N/A")

C5_UnreadableSourceReportedInline ==
    /\ exc # None => exc[1].type # "OSError"
    /\ pc = "done" =>
          /\ [i \in 1..Len(SummaryLines) |-> SummaryLines[i].name]
                = SortSeq(log_files, LAMBDA a, b : a < b)
          /\ \A i \in 1..Len(SummaryLines) :
                ~files[SummaryLines[i].name].readable => AllNA(SummaryLines[i])

-----------------------------------------------------------------------------
(* C6. Directory mode: whatever fields of a result are absent, its summary *)
(* line is printed without error, with the literal N/A for an absent field *)
(* and the value for a present one, and the loop goes on to the next       *)
(* source.                                                                 *)
Rendered(cell, present) ==
    IF present THEN cell.value.type = "float" ELSE cell.value = Str("N/A")

C6_SummaryLineForEveryResult ==
    /\ exc # None => exc[1].where # "main"
    /\ pc \in {"for", "done"} => Len(SummaryLines) = Len(all_results)
    /\ \A i \in 1..Len(SummaryLines) :
          LET out == SummaryLines[i]
              res == all_results[i]
          IN  /\ out.name = res.file
              /\ Rendered(out.e2e, "e2e" \in DOMAIN res.timing)
              /\ Rendered(out.freeze, res.freeze # None)
              /\ Rendered(out.bitrate, res.bitrate_mbps # None)

=============================================================================
